---- MODULE Spec2Model ----
(***************************************************************************)
(* Model of the FCD CSI controller, pkg/csi/service/fcd/controller.go:     *)
(* CreateVolume, DeleteVolume, ControllerPublishVolume,                    *)
(* ControllerUnpublishVolume and ListVolumes, run against an abstract      *)
(* backend (connection manager and datacenter driver).  Every backend call *)
(* a handler makes is one step of the request; the backend's answer to a   *)
(* call is chosen nondeterministically among the answers it can give.      *)
(***************************************************************************)
EXTENDS Integers, Sequences, FiniteSets, TLC

VARIABLES
    disks,      \* the backend's first-class disks, in enumeration order
    nextId,     \* the backend's next fresh disk id
    pc,         \* pc[p]: where request slot p stands in its handler
    req,        \* req[p]: the request slot p is serving (or last served)
    loc,        \* loc[p]: the handler's local variables
    resp,       \* resp[p]: the response returned to the caller
    prev,       \* the request completed before the ones now in the slots
    walk        \* a client paging through ListVolumes with next tokens

vars == <<disks, nextId, pc, req, loc, resp, prev, walk>>

(***************************************************************************)
(* Bounds of the model.                                                    *)
(***************************************************************************)
MaxId == 2          \* disks the backend ever creates
MaxTotal == 10      \* disks in a listing of the paging specification
MaxPage == 4        \* largest maxEntries of a paging client
MaxGb == 3          \* whole gibibytes in a requested byte count

(***************************************************************************)
(* A nil-able value (a nil map, pointer or slice) is None or Some(x).      *)
(***************************************************************************)
None == <<>>
Some(x) == <<x>>
IsNil(o) == Len(o) = 0
Get(o) == o[1]

(***************************************************************************)
(* Sizes.  A byte count is a record [g, r]: g whole GiB plus r bytes,      *)
(* 0 <= r < GbInBytes, so that counts past 2^31 stay representable.        *)
(***************************************************************************)
MbInBytes == 1024 * 1024
GbInBytes == 1024 * 1024 * 1024
DefaultGbDiskSize == 10

Bytes(g, r) == [g |-> g, r |-> r]

\* DefaultGbDiskSize * GbInBytes
DefaultBytes == Bytes(DefaultGbDiskSize, 0)

IsZeroBytes(b) == b.g = 0 /\ b.r = 0

BytesLeq(a, b) == a.g < b.g \/ (a.g = b.g /\ a.r <= b.r)

\* volumeutil.RoundUpSize(volSizeBytes, GbInBytes):
\* (volSizeBytes + GbInBytes - 1) / GbInBytes
RoundUpSize(b) == b.g + ((b.r + GbInBytes - 1) \div GbInBytes)

\* volSizeBytes of CreateVolume: the default unless a capacity range with a
\* non-zero RequiredBytes is given.
VolSizeBytes(cap) ==
    IF ~IsNil(cap) /\ ~IsZeroBytes(Get(cap)) THEN Get(cap) ELSE DefaultBytes

\* Line 130: int64(volumeutil.RoundUpSize(volSizeBytes, GbInBytes)) * 1024
VolSizeMB(cap) == RoundUpSize(VolSizeBytes(cap)) * 1024

\* CapacityInMB * MbInBytes, as a byte count
CapacityBytes(capMB) == Bytes(capMB \div 1024, (capMB % 1024) * MbInBytes)

(***************************************************************************)
(* Tokens.  A token is a string, modelled as a sequence of characters.     *)
(***************************************************************************)
Digits == <<"0", "1", "2", "3", "4", "5", "6", "7", "8", "9">>

IsDigit(c) == \E i \in 1..10 : Digits[i] = c

DigitVal(c) == (CHOOSE i \in 1..10 : Digits[i] = c) - 1

RECURSIVE ParseDigits(_, _)
ParseDigits(s, acc) ==
    IF s = <<>> THEN acc
    ELSE ParseDigits(Tail(s), acc * 10 + DigitVal(Head(s)))

\* strconv.Atoi: an optional sign, then one or more decimal digits.
AtoiOk(s) ==
    LET body == IF s # <<>> /\ Head(s) \in {"+", "-"} THEN Tail(s) ELSE s
    IN  body # <<>> /\ \A i \in 1..Len(body) : IsDigit(body[i])

Atoi(s) ==
    IF Head(s) = "-" THEN 0 - ParseDigits(Tail(s), 0)
    ELSE IF Head(s) = "+" THEN ParseDigits(Tail(s), 0)
    ELSE ParseDigits(s, 0)

RECURSIVE ItoaNat(_)
ItoaNat(n) ==
    IF n < 10 THEN <<Digits[n + 1]>>
    ELSE ItoaNat(n \div 10) \o <<Digits[(n % 10) + 1]>>

\* strconv.Itoa
Itoa(n) == IF n < 0 THEN <<"-">> \o ItoaNat(0 - n) ELSE ItoaNat(n)

(***************************************************************************)
(* Disks and the attribute map returned to the caller.                     *)
(* A disk is [id, name, capMB, parentType, parentName, ds, inst]: ds is    *)
(* the datastore holding the bytes, inst the vCenter/datacenter owning it. *)
(***************************************************************************)
TypeDatastore == "Datastore"
TypeDatastoreCluster == "DatastoreCluster"

VcServer(inst) == <<"vc", inst>>
DcName(inst) == <<"dc", inst>>

\* Mutant: the owning datastore of a cluster's disk is left out.
Attributes_NoOwning(vcenter, datacenter, d) ==
    [k \in {"type", "vcenter", "datacenter", "name", "parent_type",
            "parent_name"} |->
        CASE k = "type" -> "FirstClassDisk"
          [] k = "vcenter" -> vcenter
          [] k = "datacenter" -> datacenter
          [] k = "name" -> d.name
          [] k = "parent_type" -> d.parentType
          [] k = "parent_name" -> d.parentName]

\* The attribute map built by CreateVolume and ListVolumes for a disk.
Attributes(vcenter, datacenter, d) ==
    LET common ==
            [k \in {"type", "vcenter", "datacenter", "name", "parent_type",
                    "parent_name"} |->
                CASE k = "type" -> "FirstClassDisk"
                  [] k = "vcenter" -> vcenter
                  [] k = "datacenter" -> datacenter
                  [] k = "name" -> d.name
                  [] k = "parent_type" -> d.parentType
                  [] k = "parent_name" -> d.parentName]
    IN  IF d.parentType = TypeDatastoreCluster
        THEN [k \in DOMAIN common \cup {"owning_datastore"} |->
                IF k = "owning_datastore" THEN d.ds ELSE common[k]]
        ELSE common

\* One csi.Volume of a response.
Volume(vcenter, datacenter, d) ==
    [VolumeId |-> d.id,
     CapacityBytes |-> CapacityBytes(d.capMB),
     VolumeContext |-> Attributes(vcenter, datacenter, d)]

\* An entry of ListVolumes: the endpoint and datacenter are the disk's own.
ListEntry(d) == Volume(VcServer(d.inst), DcName(d.inst), d)

(***************************************************************************)
(* ListVolumes.  A Go slice expression s[lo:hi] panics unless              *)
(* 0 <= lo <= hi <= len(s) (the capacity is not relied on).                *)
(***************************************************************************)
SliceOk(s, lo, hi) == 0 <= lo /\ lo <= hi /\ hi <= Len(s)

Failure(code) == [code |-> code, Entries |-> <<>>, NextToken |-> <<>>]

\* Mutant: the page ends one entry late.
ListStop_OffByOne(total, start, MaxEntries) ==
    IF MaxEntries # 0 /\ total > MaxEntries
    THEN start + MaxEntries
    ELSE total

\* Mutant: maxEntries = 0 is not taken as "no limit".
ListStop_ZeroLimit(total, start, MaxEntries) ==
    IF total > MaxEntries
    THEN start + MaxEntries - 1
    ELSE total

\* stop := total; if MaxEntries != 0 && stop > MaxEntries
\*     { stop = start + MaxEntries - 1 }
ListStop(total, start, MaxEntries) ==
    IF MaxEntries # 0 /\ total > MaxEntries
    THEN start + MaxEntries - 1
    ELSE total

\* Mutant: the page cut at maxEntries loses its last entry.
ListBounds_Short(total, start, stop) ==
    IF stop >= total THEN <<start, total>> ELSE <<start, stop>>

\* The page as bounds [lo, hi) of the slice expression taken.
ListBounds(total, start, stop) ==
    IF stop >= total THEN <<start, total>> ELSE <<start, stop + 1>>

\* Mutant: no next token when the page ends with the last disk.
ListNextToken_Strict(total, stop) ==
    IF stop < total - 1 THEN Itoa(stop + 1) ELSE <<>>

\* if stop < total { resp.NextToken = strconv.Itoa(stop + 1) }
ListNextToken(total, stop) == IF stop < total THEN Itoa(stop + 1) ELSE <<>>

\* Mutant: a start token equal to the total is refused too.
StartBeyondEnd_Inclusive(start, total) == start >= total

\* Line 423: start > total
StartBeyondEnd(start, total) == start > total

\* The response of ListVolumes over the enumeration firstClassDisks.
ListVolumes(firstClassDisks, StartingToken, MaxEntries) ==
    LET total == Len(firstClassDisks)
    IN  IF StartingToken # <<>> /\ ~AtoiOk(StartingToken)
        THEN Failure("Internal")
        ELSE
          LET start == IF StartingToken # <<>> THEN Atoi(StartingToken) ELSE 0
              stop == ListStop(total, start, MaxEntries)
              b == ListBounds(total, start, stop)
          IN  IF StartBeyondEnd(start, total) THEN Failure("Internal")
              ELSE IF ~SliceOk(firstClassDisks, b[1], b[2])
              THEN Failure("panic")
              ELSE [code |-> "OK",
                    Entries |-> [i \in 1..(b[2] - b[1]) |->
                                    ListEntry(firstClassDisks[b[1] + i])],
                    NextToken |-> ListNextToken(total, stop)]

(***************************************************************************)
(* Requests, responses and the handlers' local variables.                  *)
(* A volume id is a string: <<>> is the empty string, <<n>> the id of the  *)
(* n-th disk the backend created.  A topology segment is the name of its   *)
(* (zone, region) pair.                                                    *)
(***************************************************************************)
Procs == {1, 2}

NoReq ==
    [op |-> "none", Name |-> "", Parameters |-> None, CapacityRange |-> None,
     Accessibility |-> None, VolumeId |-> <<>>, NodeId |-> "",
     StartingToken |-> <<>>, MaxEntries |-> 0]

\* The parameters map: absent keys read as "".
Params(type, name, zone) == [type |-> type, name |-> name, zone |-> zone]

Topology(requisite, preferred) ==
    [Requisite |-> requisite, Preferred |-> preferred]

CreateVolumeRequest(name, params, cap, acc) ==
    [NoReq EXCEPT !.op = "CreateVolume", !.Name = name, !.Parameters = params,
                  !.CapacityRange = cap, !.Accessibility = acc]

DeleteVolumeRequest(id) ==
    [NoReq EXCEPT !.op = "DeleteVolume", !.VolumeId = id]

ControllerPublishVolumeRequest(id, node) ==
    [NoReq EXCEPT !.op = "ControllerPublishVolume", !.VolumeId = id,
                  !.NodeId = node]

ControllerUnpublishVolumeRequest(id, node) ==
    [NoReq EXCEPT !.op = "ControllerUnpublishVolume", !.VolumeId = id,
                  !.NodeId = node]

NoResp ==
    [code |-> "none", Volume |-> None, PublishContext |-> None,
     Entries |-> <<>>, NextToken |-> <<>>]

\* status.Errorf(code, msg), or an error returned as the callee gave it
Error(code) == [NoResp EXCEPT !.code = code]

NoLoc ==
    [volSizeMB |-> 0, datastoreType |-> "", todo |-> <<>>,
     discoveryInfo |-> None, fcd |-> None, trace |-> <<>>]

\* One backend call of a request, with the backend's answer.
Call(name, arg, res) == [call |-> name, arg |-> arg, res |-> res]

Calls(trace, name) == {i \in 1..Len(trace) : trace[i].call = name}

(***************************************************************************)
(* The backend: which instance a zone resolves to, and its disks.          *)
(***************************************************************************)
\* connMgr.WhichVCandDCByZone: the instance serving a zone; a zone no
\* instance serves resolves to nothing.
ZoneInstance(zone) ==
    CASE zone = "" -> Some("i1")
      [] zone = "zA" -> Some("i1")
      [] zone = "zB" -> Some("i2")
      [] OTHER -> None

\* The datastore of a cluster that receives a new disk.
OwningDatastore(type, name) ==
    IF type = TypeDatastoreCluster THEN <<"member-of", name>> ELSE <<name>>

\* Positions in the enumeration of the disks of a pool with a given name.
DisksByName(inst, type, parent, name) ==
    {i \in 1..Len(disks) :
        /\ disks[i].inst = inst
        /\ disks[i].parentType = type
        /\ disks[i].parentName = parent
        /\ disks[i].name = name}

DisksById(id) == {i \in 1..Len(disks) : disks[i].id = id}

NewDisk(inst, type, parent, name, capMB) ==
    [id |-> <<nextId>>, name |-> name, capMB |-> capMB, parentType |-> type,
     parentName |-> parent, ds |-> OwningDatastore(type, parent),
     inst |-> inst]

RemoveAt(s, i) == [j \in 1..(Len(s) - 1) |-> IF j < i THEN s[j] ELSE s[j + 1]]

(***************************************************************************)
(* Steps common to the handlers.                                           *)
(***************************************************************************)
Idle(p) == pc[p] \in {"idle", "done"}

\* A request enters slot p; the request that slot completed becomes prev.
Accept(p, r) ==
    /\ Idle(p)
    /\ req' = [req EXCEPT ![p] = r]
    /\ prev' = IF pc[p] = "done"
               THEN Some([req |-> req[p], resp |-> resp[p],
                          trace |-> loc[p].trace])
               ELSE prev

\* The handler returns.
Return(p, r) ==
    /\ pc' = [pc EXCEPT ![p] = "done"]
    /\ resp' = [resp EXCEPT ![p] = r]

Goto(p, label) ==
    /\ pc' = [pc EXCEPT ![p] = label]
    /\ resp' = [resp EXCEPT ![p] = NoResp]

Traced(p, c) == [loc[p] EXCEPT !.trace = Append(@, c)]

(***************************************************************************)
(* CreateVolume.                                                           *)
(***************************************************************************)
\* Mutant: the preferred list is taken first, the requisite list otherwise.
Candidates_PreferredFirst(r) ==
    LET acc == r.Accessibility
    IN  IF ~IsNil(acc)
           /\ (~IsNil(Get(acc).Requisite) \/ ~IsNil(Get(acc).Preferred))
        THEN IF ~IsNil(Get(acc).Preferred)
             THEN Get(Get(acc).Preferred)
             ELSE Get(Get(acc).Requisite)
        ELSE <<Get(r.Parameters).zone>>

\* The segments the zone loop runs over: the requisite list when there is
\* one, else the preferred list; without a topology requirement, the one
\* legacy zone of the parameters.
Candidates(r) ==
    LET acc == r.Accessibility
    IN  IF ~IsNil(acc)
           /\ (~IsNil(Get(acc).Requisite) \/ ~IsNil(Get(acc).Preferred))
        THEN IF ~IsNil(Get(acc).Requisite)
             THEN Get(Get(acc).Requisite)
             ELSE Get(Get(acc).Preferred)
        ELSE <<Get(r.Parameters).zone>>

\* The required-parameter checks.
CreateVolumeInvalid(r) ==
    \/ IsNil(r.Parameters)
    \/ r.Name = ""
    \/ Get(r.Parameters).type = ""
    \/ Get(r.Parameters).name = ""

ValidationError == Error("Internal")

DatastoreType(volType) ==
    IF volType = TypeDatastore THEN TypeDatastore ELSE TypeDatastoreCluster

CreateVolumeResponse(inst, d) ==
    [NoResp EXCEPT !.code = "OK",
                   !.Volume = Some(Volume(VcServer(inst), DcName(inst), d))]

\* Lines 98-145: validation, size and type; an empty segment list leaves
\* discoveryInfo nil and err nil, and line 186 dereferences it.
CreateVolumeBegin(p, r) ==
    /\ r.op = "CreateVolume"
    /\ Accept(p, r)
    /\ UNCHANGED <<disks, nextId, walk>>
    /\ IF CreateVolumeInvalid(r)
       THEN /\ loc' = [loc EXCEPT ![p] = NoLoc]
            /\ Return(p, ValidationError)
       ELSE /\ loc' = [loc EXCEPT ![p] =
                    [NoLoc EXCEPT
                        !.volSizeMB = VolSizeMB(r.CapacityRange),
                        !.datastoreType = DatastoreType(Get(r.Parameters).type),
                        !.todo = Candidates(r)]]
            /\ IF Candidates(r) = <<>>
               THEN Return(p, Error("panic"))
               ELSE Goto(p, "cv_zone")

\* One turn of the zone loop: c.connMgr.WhichVCandDCByZone on the next
\* segment; success breaks out of the loop, the last failure ends it.
CreateVolumeZone(p) ==
    /\ pc[p] = "cv_zone"
    /\ UNCHANGED <<disks, nextId, req, prev, walk>>
    /\ LET zone == Head(loc[p].todo)
       IN  \/ /\ ~IsNil(ZoneInstance(zone))
              /\ loc' = [loc EXCEPT ![p] =
                    [Traced(p, Call("WhichVCandDCByZone", <<zone>>, "ok"))
                        EXCEPT !.discoveryInfo = ZoneInstance(zone),
                               !.todo = <<>>]]
              /\ Goto(p, "cv_lookup")
           \/ /\ loc' = [loc EXCEPT ![p] =
                    [Traced(p, Call("WhichVCandDCByZone", <<zone>>, "err"))
                        EXCEPT !.todo = Tail(loc[p].todo)]]
              /\ IF Tail(loc[p].todo) = <<>>
                 THEN Return(p, Error("Internal"))
                 ELSE Goto(p, "cv_zone")

\* GetFirstClassDisk with FindFCDByName for request p: the first disk of the
\* pool, in enumeration order, that has the name; no position when none has.
Found(p) ==
    LET m == DisksByName(Get(loc[p].discoveryInfo), loc[p].datastoreType,
                         Get(req[p].Parameters).name, req[p].Name)
    IN  IF m = {} THEN {} ELSE {CHOOSE i \in m : \A j \in m : i <= j}

\* The answers GetFirstClassDisk can give request p: the disk found, no
\* such disk, or another failure.
LookupAnswers(p) ==
    {"err"} \cup (IF Found(p) = {} THEN {"notfound"} ELSE {"found"})

Looked(p, res) ==
    LET t == Traced(p, Call("GetFirstClassDisk", <<req[p].Name>>, res))
    IN  IF res = "found"
        THEN [t EXCEPT !.fcd = Some(disks[CHOOSE i \in Found(p) : TRUE])]
        ELSE t

\* Mutant: the result of the lookup is ignored and the disk always created.
LookupHit_Ignored(res) == FALSE

\* Line 188: err == nil, the disk exists.
LookupHit(res) == res = "found"

\* Mutant: only a larger existing disk counts as a conflict.
SizeConflict_Larger(capacityInMB, volSizeMB) == capacityInMB > volSizeMB

\* Line 191: firstClassDisk.Config.CapacityInMB != volSizeMB
SizeConflict(capacityInMB, volSizeMB) == capacityInMB # volSizeMB

\* Lines 186-197: the lookup by name; a hit of another size is a conflict,
\* a hit of the same size is the result, and any error leads to the create.
CreateVolumeLookup(p) ==
    /\ pc[p] = "cv_lookup"
    /\ UNCHANGED <<disks, nextId, req, prev, walk>>
    /\ \E res \in LookupAnswers(p) :
        /\ loc' = [loc EXCEPT ![p] = Looked(p, res)]
        /\ IF LookupHit(res)
           THEN LET d == Get(Looked(p, res).fcd)
                IN  IF SizeConflict(d.capMB, loc[p].volSizeMB)
                    THEN Return(p, Error("AlreadyExists"))
                    ELSE Return(p, CreateVolumeResponse(
                                    Get(loc[p].discoveryInfo), d))
           ELSE Goto(p, "cv_create")

\* Mutant: the controller looks again before the create and issues no
\* create-disk call when a disk of that name has appeared.
CreateVolumeCreate_Dedup(p) ==
    /\ pc[p] = "cv_create"
    /\ UNCHANGED <<req, prev, walk>>
    /\ IF Found(p) # {}
       THEN /\ UNCHANGED <<disks, nextId, loc>>
            /\ Return(p, Error("Aborted"))
       ELSE \/ /\ nextId <= MaxId
               /\ disks' = Append(disks,
                     NewDisk(Get(loc[p].discoveryInfo), loc[p].datastoreType,
                             Get(req[p].Parameters).name, req[p].Name,
                             loc[p].volSizeMB))
               /\ nextId' = nextId + 1
               /\ loc' = [loc EXCEPT ![p] =
                     Traced(p, Call("CreateFirstClassDisk",
                                    <<req[p].Name, loc[p].volSizeMB>>, "ok"))]
               /\ Goto(p, "cv_reread")
            \/ /\ UNCHANGED <<disks, nextId>>
               /\ loc' = [loc EXCEPT ![p] =
                     Traced(p, Call("CreateFirstClassDisk",
                                    <<req[p].Name, loc[p].volSizeMB>>, "err"))]
               /\ Return(p, Error("Internal"))

\* Lines 198-203: CreateFirstClassDisk; the backend creates a disk of the
\* size asked, or fails.
CreateVolumeCreate(p) ==
    /\ pc[p] = "cv_create"
    /\ UNCHANGED <<req, prev, walk>>
    /\ \/ /\ nextId <= MaxId
          /\ disks' = Append(disks,
                NewDisk(Get(loc[p].discoveryInfo), loc[p].datastoreType,
                        Get(req[p].Parameters).name, req[p].Name,
                        loc[p].volSizeMB))
          /\ nextId' = nextId + 1
          /\ loc' = [loc EXCEPT ![p] =
                Traced(p, Call("CreateFirstClassDisk",
                               <<req[p].Name, loc[p].volSizeMB>>, "ok"))]
          /\ Goto(p, "cv_reread")
       \/ /\ UNCHANGED <<disks, nextId>>
          /\ loc' = [loc EXCEPT ![p] =
                Traced(p, Call("CreateFirstClassDisk",
                               <<req[p].Name, loc[p].volSizeMB>>, "err"))]
          /\ Return(p, Error("Internal"))

\* Lines 205-236: the read after the create.
CreateVolumeReread(p) ==
    /\ pc[p] = "cv_reread"
    /\ UNCHANGED <<disks, nextId, req, prev, walk>>
    /\ \E res \in LookupAnswers(p) :
        /\ loc' = [loc EXCEPT ![p] = Looked(p, res)]
        /\ IF res = "found"
           THEN Return(p, CreateVolumeResponse(
                           Get(loc[p].discoveryInfo), Get(Looked(p, res).fcd)))
           ELSE Return(p, Error("Internal"))

(***************************************************************************)
(* Resolution of a volume id, shared by DeleteVolume and the two publish   *)
(* handlers: c.connMgr.WhichVCandDCByFCDId answers with the disk and its   *)
(* instance, with ErrNoDiskIDFound when no instance holds the id, or with  *)
(* another error.                                                          *)
(***************************************************************************)
ResolveAnswers(id) ==
    {"err"} \cup (IF DisksById(id) = {} THEN {"ErrNoDiskIDFound"} ELSE {"found"})

Resolved(p, res) ==
    LET d == disks[CHOOSE i \in DisksById(req[p].VolumeId) : TRUE]
        t == Traced(p, Call("WhichVCandDCByFCDId", req[p].VolumeId, res))
    IN  IF res = "found"
        THEN [t EXCEPT !.discoveryInfo = Some(d.inst), !.fcd = Some(d)]
        ELSE t

(***************************************************************************)
(* DeleteVolume.                                                           *)
(***************************************************************************)
OkResponse == [NoResp EXCEPT !.code = "OK"]

DeleteVolumeBegin(p, r) ==
    /\ r.op = "DeleteVolume"
    /\ Accept(p, r)
    /\ UNCHANGED <<disks, nextId, walk>>
    /\ loc' = [loc EXCEPT ![p] = NoLoc]
    /\ IF r.VolumeId = <<>>
       THEN Return(p, ValidationError)
       ELSE Goto(p, "dv_resolve")

\* Mutant: ErrNoDiskIDFound is treated as any other error.
DeleteOnResolve_Strict(res) ==
    IF res # "found" THEN "internal" ELSE "proceed"

\* Lines 252-259: what DeleteVolume does with the resolver's answer.
DeleteOnResolve(res) ==
    CASE res = "ErrNoDiskIDFound" -> "success"
      [] res # "found" -> "internal"
      [] OTHER -> "proceed"

\* Lines 251-259: ErrNoDiskIDFound is a success, any other error is not.
DeleteVolumeResolve(p) ==
    /\ pc[p] = "dv_resolve"
    /\ UNCHANGED <<disks, nextId, req, prev, walk>>
    /\ \E res \in ResolveAnswers(req[p].VolumeId) :
        /\ loc' = [loc EXCEPT ![p] = Resolved(p, res)]
        /\ CASE DeleteOnResolve(res) = "proceed" -> Goto(p, "dv_delete")
             [] DeleteOnResolve(res) = "success" -> Return(p, OkResponse)
             [] OTHER -> Return(p, Error("Internal"))

\* Lines 261-277: DeleteFirstClassDisk removes the disk, or fails.
DeleteVolumeDelete(p) ==
    /\ pc[p] = "dv_delete"
    /\ UNCHANGED <<nextId, req, prev, walk>>
    /\ \/ \E i \in DisksById(req[p].VolumeId) :
            /\ disks' = RemoveAt(disks, i)
            /\ loc' = [loc EXCEPT ![p] =
                  Traced(p, Call("DeleteFirstClassDisk", req[p].VolumeId, "ok"))]
            /\ Return(p, OkResponse)
       \/ /\ UNCHANGED disks
          /\ loc' = [loc EXCEPT ![p] =
                Traced(p, Call("DeleteFirstClassDisk", req[p].VolumeId, "err"))]
          /\ Return(p, Error("Internal"))

(***************************************************************************)
(* ControllerPublishVolume and ControllerUnpublishVolume.                  *)
(***************************************************************************)
IsPublish(r) == r.op = "ControllerPublishVolume"

AttachCall(r) == IF IsPublish(r) THEN "AttachDisk" ELSE "DetachDisk"

\* The handle vm.AttachDisk returns for a disk.
DiskUUID(d) == <<"uuid", d.id>>

PublishInfo(inst, d, diskUUID) ==
    LET a == Attributes(VcServer(inst), DcName(inst), d)
    IN  [k \in DOMAIN a \cup {"page83data"} |->
            IF k = "page83data" THEN diskUUID ELSE a[k]]

PublishBegin(p, r) ==
    /\ r.op \in {"ControllerPublishVolume", "ControllerUnpublishVolume"}
    /\ Accept(p, r)
    /\ UNCHANGED <<disks, nextId, walk>>
    /\ loc' = [loc EXCEPT ![p] = NoLoc]
    /\ IF r.VolumeId = <<>> \/ r.NodeId = ""
       THEN Return(p, ValidationError)
       ELSE Goto(p, "pub_resolve")

\* Mutant: ErrNoDiskIDFound is a success, as in DeleteVolume.
PublishOnResolve_Lenient(res) ==
    CASE res = "ErrNoDiskIDFound" -> "success"
      [] res # "found" -> "internal"
      [] OTHER -> "proceed"

\* Lines 297-301 and 359-363: what the publish handlers do with the
\* resolver's answer.
PublishOnResolve(res) == IF res # "found" THEN "internal" ELSE "proceed"

\* Lines 296-301 and 358-363: any failure to resolve the id is internal.
PublishResolve(p) ==
    /\ pc[p] = "pub_resolve"
    /\ UNCHANGED <<disks, nextId, req, prev, walk>>
    /\ \E res \in ResolveAnswers(req[p].VolumeId) :
        /\ loc' = [loc EXCEPT ![p] = Resolved(p, res)]
        /\ CASE PublishOnResolve(res) = "proceed" -> Goto(p, "pub_node")
             [] PublishOnResolve(res) = "success" -> Return(p, OkResponse)
             [] OTHER -> Return(p, Error("Internal"))

\* Mutant: the callee's error is wrapped into an Internal status.
Unchanged_Wrapped(call) == Error("Internal")

\* Lines 308, 316, 370 and 377: return nil, err.  The error of a callee,
\* returned as it came, is told from a status made by the controller by its
\* code, which names the callee.
Unchanged(call) == Error("err:" \o call)

\* Lines 305-309 and 367-371: GetVMByDNSName; its error is returned as is.
PublishNode(p) ==
    /\ pc[p] = "pub_node"
    /\ UNCHANGED <<disks, nextId, req, prev, walk>>
    /\ \/ /\ loc' = [loc EXCEPT ![p] =
                Traced(p, Call("GetVMByDNSName", <<req[p].NodeId>>, "ok"))]
          /\ Goto(p, "pub_attach")
       \/ /\ loc' = [loc EXCEPT ![p] =
                Traced(p, Call("GetVMByDNSName", <<req[p].NodeId>>, "err"))]
          /\ Return(p, Unchanged("GetVMByDNSName"))

\* Lines 311-339 and 373-382: AttachDisk or DetachDisk on the backing file;
\* its error is returned as is.
PublishAttach(p) ==
    /\ pc[p] = "pub_attach"
    /\ UNCHANGED <<disks, nextId, req, prev, walk>>
    /\ LET d == Get(loc[p].fcd)
       IN  \/ /\ loc' = [loc EXCEPT ![p] =
                    Traced(p, Call(AttachCall(req[p]), d.id, "ok"))]
              /\ Return(p,
                    IF IsPublish(req[p])
                    THEN [OkResponse EXCEPT !.PublishContext =
                            Some(PublishInfo(Get(loc[p].discoveryInfo), d,
                                             DiskUUID(d)))]
                    ELSE OkResponse)
           \/ /\ loc' = [loc EXCEPT ![p] =
                    Traced(p, Call(AttachCall(req[p]), d.id, "err"))]
              /\ Return(p, Unchanged(AttachCall(req[p])))

(***************************************************************************)
(* A client paging through ListVolumes: each call takes the token the      *)
(* previous response carried.  walk is [m, start, token, pages, tokens,    *)
(* state]: the maxEntries and first token it uses, the token of its next   *)
(* call, the volume ids of each page received and the next token of each,  *)
(* and whether it is off, walking, finished (a response without next       *)
(* token) or failed with the error code in state.                          *)
(***************************************************************************)
NoWalk ==
    [m |-> 0, start |-> <<>>, token |-> <<>>, pages |-> <<>>,
     tokens |-> <<>>, state |-> "off"]

NewWalk(m, token) ==
    [NoWalk EXCEPT !.m = m, !.start = token, !.token = token,
                   !.state = "walking"]

PageIds(entries) == [i \in 1..Len(entries) |-> entries[i].VolumeId]

\* One ListVolumes call of the paging client (lines 393-463).
ListVolumesPage ==
    /\ walk.state = "walking"
    /\ UNCHANGED <<disks, nextId, pc, req, loc, resp, prev>>
    /\ LET r == ListVolumes(disks, walk.token, walk.m)
       IN  walk' =
             IF r.code # "OK"
             THEN [walk EXCEPT !.state = r.code]
             ELSE [walk EXCEPT
                     !.pages = Append(@, PageIds(r.Entries)),
                     !.tokens = Append(@, r.NextToken),
                     !.token = r.NextToken,
                     !.state = IF r.NextToken = <<>> THEN "finished"
                               ELSE "walking"]

(***************************************************************************)
(* The requests of the lifecycle specification: one request at a time, by  *)
(* legacy zone addressing, in slot 1.                                      *)
(***************************************************************************)
LifeCaps == {None, Some(Bytes(0, 1))}

VolumeIds == {<<>>} \cup {<<n>> : n \in 1..MaxId}

NodeIds == {"", "n1"}

\* Name "a" in one pool at two sizes, in a second pool, and name "b".
ValidCreates ==
    {CreateVolumeRequest("a", Some(Params(TypeDatastore, "p1", "")), c, None) :
        c \in LifeCaps}
    \cup
    {CreateVolumeRequest("a", Some(Params(TypeDatastoreCluster, "p1", "")),
                         None, None),
     CreateVolumeRequest("b", Some(Params(TypeDatastore, "p1", "")),
                         None, None)}

InvalidCreates ==
    {CreateVolumeRequest("a", None, None, None),
     CreateVolumeRequest("", Some(Params(TypeDatastore, "p1", "")), None, None),
     CreateVolumeRequest("a", Some(Params("", "p1", "")), None, None),
     CreateVolumeRequest("a", Some(Params(TypeDatastore, "", "")), None, None)}

Deletes == {DeleteVolumeRequest(id) : id \in VolumeIds}

Publishes ==
    {ControllerPublishVolumeRequest(id, n) : id \in VolumeIds, n \in NodeIds}
    \cup
    {ControllerUnpublishVolumeRequest(id, n) : id \in VolumeIds, n \in NodeIds}

Requests == ValidCreates \cup InvalidCreates \cup Deletes

Init ==
    /\ disks = <<>>
    /\ nextId = 1
    /\ pc = [p \in Procs |-> "idle"]
    /\ req = [p \in Procs |-> NoReq]
    /\ loc = [p \in Procs |-> NoLoc]
    /\ resp = [p \in Procs |-> NoResp]
    /\ prev = None
    /\ walk = NoWalk

\* The steps of a CreateVolume or DeleteVolume request in slot p.
Step(p) ==
    \/ CreateVolumeZone(p)
    \/ CreateVolumeLookup(p)
    \/ CreateVolumeCreate(p)
    \/ CreateVolumeReread(p)
    \/ DeleteVolumeResolve(p)
    \/ DeleteVolumeDelete(p)

Next ==
    \/ \E r \in Requests : CreateVolumeBegin(1, r)
    \/ \E r \in Requests : DeleteVolumeBegin(1, r)
    \/ Step(1)

Spec == Init /\ [][Next]_vars

(***************************************************************************)
(* The publish specification: disks of either pool type are created,       *)
(* deleted, attached and detached, one request at a time.                  *)
(***************************************************************************)
PublishCreates ==
    {CreateVolumeRequest("a", Some(Params(t, "p1", "")), None, None) :
        t \in {TypeDatastore, TypeDatastoreCluster}}

PublishRequests == PublishCreates \cup Deletes \cup Publishes

NextPublish ==
    \/ \E r \in PublishRequests : CreateVolumeBegin(1, r)
    \/ \E r \in PublishRequests : DeleteVolumeBegin(1, r)
    \/ \E r \in PublishRequests : PublishBegin(1, r)
    \/ Step(1)
    \/ PublishResolve(1)
    \/ PublishNode(1)
    \/ PublishAttach(1)

SpecPublish == Init /\ [][NextPublish]_vars

(***************************************************************************)
(* The paging specification: an unchanging list of disks, and a caller     *)
(* that starts from any token with any maxEntries and follows the next     *)
(* tokens.                                                                 *)
(***************************************************************************)
\* A listing of n disks; the disk at Go index i is the one with id <<i + 1>>.
DiskList(n) ==
    [i \in 1..n |->
        [id |-> <<i>>, name |-> "a", capMB |-> 1024,
         parentType |-> TypeDatastore, parentName |-> "p1",
         ds |-> OwningDatastore(TypeDatastore, "p1"), inst |-> "i1"]]

\* Starting tokens: none, the decimal offsets around the list's range, and
\* strings that are no decimal integer.
StartTokens ==
    {<<>>} \cup {Itoa(k) : k \in (0 - 2)..(MaxTotal + 2)}
    \cup {<<"x">>, <<"1", "x">>, <<"-">>, <<"+", "1">>}

InitList ==
    /\ \E n \in 0..MaxTotal : disks = DiskList(n) /\ nextId = n + 1
    /\ pc = [p \in Procs |-> "idle"]
    /\ req = [p \in Procs |-> NoReq]
    /\ loc = [p \in Procs |-> NoLoc]
    /\ resp = [p \in Procs |-> NoResp]
    /\ prev = None
    /\ \E m \in (0 - 2)..MaxPage, t \in StartTokens : walk = NewWalk(m, t)

NextList == ListVolumesPage

SpecList == InitList /\ [][NextList]_vars

(***************************************************************************)
(* The zone specification: one CreateVolume request from an empty          *)
(* backend, with every combination of requisite and preferred segment      *)
(* lists.  Zone "zX" is served by no instance; any resolution can fail.    *)
(***************************************************************************)
MaxSegs == 2        \* segments in a requisite or preferred list

Zones == {"zA", "zB", "zX"}

SegLists == UNION {[1..n -> Zones] : n \in 0..MaxSegs}

OptSegLists == {None} \cup {Some(l) : l \in SegLists}

ZoneRequests ==
    {CreateVolumeRequest("a", Some(Params(TypeDatastore, "p1", "")), None, acc) :
        acc \in {None} \cup
                {Some(Topology(rq, pf)) : rq \in OptSegLists, pf \in OptSegLists}}

NextZone ==
    \/ \E r \in ZoneRequests : pc[1] = "idle" /\ CreateVolumeBegin(1, r)
    \/ CreateVolumeZone(1)
    \/ CreateVolumeLookup(1)
    \/ CreateVolumeCreate(1)
    \/ CreateVolumeReread(1)

SpecZone == Init /\ [][NextZone]_vars

(***************************************************************************)
(* The size specification: up to two CreateVolume requests for one name    *)
(* with requested byte counts around the gibibyte boundaries.              *)
(***************************************************************************)
SizeCaps ==
    {None} \cup
    {Some(Bytes(g, r)) : g \in 0..MaxGb, r \in {0, 1, GbInBytes - 1}}

SizeRequests ==
    {CreateVolumeRequest("a", Some(Params(TypeDatastore, "p1", "")), c, None) :
        c \in SizeCaps}

NextSize ==
    \/ \E r \in SizeRequests :
        /\ pc[1] = "idle" \/ IsNil(prev)
        /\ CreateVolumeBegin(1, r)
    \/ CreateVolumeZone(1)
    \/ CreateVolumeLookup(1)
    \/ CreateVolumeCreate(1)
    \/ CreateVolumeReread(1)

SpecSize == Init /\ [][NextSize]_vars

(***************************************************************************)
(* Vocabulary of the properties.                                           *)
(***************************************************************************)
Done(p) == pc[p] = "done"

\* The request slot 1 has completed, as recorded for prev.
Cur == [req |-> req[1], resp |-> resp[1], trace |-> loc[1].trace]

\* Every backend call of the request was answered without a failure.
Clean(c) == \A i \in 1..Len(c.trace) : c.trace[i].res # "err"

Issued(c, name) == Cardinality(Calls(c.trace, name))

\* The answer to the first call of that name (there is one).
Answer(c, name) ==
    c.trace[CHOOSE i \in Calls(c.trace, name) :
                \A j \in Calls(c.trace, name) : i <= j].res

IsCreate(c) == c.req.op = "CreateVolume" /\ ~CreateVolumeInvalid(c.req)

SamePool(a, b) ==
    /\ DatastoreType(Get(a.req.Parameters).type)
         = DatastoreType(Get(b.req.Parameters).type)
    /\ Get(a.req.Parameters).name = Get(b.req.Parameters).name
    /\ Get(a.req.Parameters).zone = Get(b.req.Parameters).zone

\* prev and Cur are two CreateVolume calls in sequence for the same name,
\* pool and size, the first successful, with no backend failure in either.
CreatedTwice ==
    /\ Done(1)
    /\ ~IsNil(prev)
    /\ IsCreate(Get(prev))
    /\ IsCreate(Cur)
    /\ Get(prev).req.Name = req[1].Name
    /\ SamePool(Get(prev), Cur)
    /\ VolSizeMB(Get(prev).req.CapacityRange) = VolSizeMB(req[1].CapacityRange)
    /\ Get(prev).resp.code = "OK"
    /\ Clean(Get(prev))
    /\ Clean(Cur)

\* C1: two CreateVolume calls in sequence with the same name, pool and
\* capacity (no delete in between, backend calls succeeding) return the same
\* volume id, and between them issue the create-disk call at most once.
C1_CreateIdempotent ==
    CreatedTwice =>
        /\ resp[1].code = "OK"
        /\ Get(resp[1].Volume).VolumeId = Get(Get(prev).resp.Volume).VolumeId
        /\ Issued(Get(prev), "CreateFirstClassDisk")
             + Issued(Cur, "CreateFirstClassDisk") <= 1

\* The first call created the disk and the second returned it.
C1_Witness ==
    /\ CreatedTwice
    /\ Issued(Get(prev), "CreateFirstClassDisk") = 1
    /\ resp[1].code = "OK"

\* A CreateVolume whose lookup by name returned a disk of another size.
ConflictingCreate ==
    /\ Done(1)
    /\ IsCreate(Cur)
    /\ Issued(Cur, "GetFirstClassDisk") > 0
    /\ Answer(Cur, "GetFirstClassDisk") = "found"
    /\ Get(loc[1].fcd).capMB # VolSizeMB(req[1].CapacityRange)

\* C2: CreateVolume for a name that exists in the pool with another size
\* fails with AlreadyExists, issues no create-disk call, and leaves the
\* existing disk (id, capacity, pool) as it was.
C2_SizeConflict ==
    ConflictingCreate =>
        /\ resp[1].code = "AlreadyExists"
        /\ IsNil(resp[1].Volume)
        /\ Issued(Cur, "CreateFirstClassDisk") = 0
        /\ \E i \in 1..Len(disks) : disks[i] = Get(loc[1].fcd)

\* The existing disk is the larger one, the request the smaller.
C2_Witness ==
    /\ ConflictingCreate
    /\ Get(loc[1].fcd).capMB < VolSizeMB(req[1].CapacityRange)

\* A DeleteVolume of a non-empty id that the resolver answered with
\* ErrNoDiskIDFound.
DeleteOfUnknown(c) ==
    /\ c.req.op = "DeleteVolume"
    /\ c.req.VolumeId # <<>>
    /\ Issued(c, "WhichVCandDCByFCDId") > 0
    /\ Answer(c, "WhichVCandDCByFCDId") = "ErrNoDiskIDFound"

\* A DeleteVolume that repeats the successful DeleteVolume before it.
DeleteRepeated ==
    /\ Done(1)
    /\ ~IsNil(prev)
    /\ Get(prev).req.op = "DeleteVolume"
    /\ req[1] = Get(prev).req
    /\ Get(prev).resp.code = "OK"
    /\ Clean(Cur)

\* C3: DeleteVolume on a non-empty id that resolves to no backend instance
\* returns success and issues no delete call; repeating a successful
\* DeleteVolume returns success again.
C3_DeleteIdempotent ==
    /\ (Done(1) /\ DeleteOfUnknown(Cur)) =>
            /\ resp[1].code = "OK"
            /\ Issued(Cur, "DeleteFirstClassDisk") = 0
    /\ DeleteRepeated =>
            /\ resp[1].code = "OK"
            /\ Issued(Cur, "DeleteFirstClassDisk") = 0

\* The first DeleteVolume removed the disk, the second found it gone.
C3_Witness ==
    /\ DeleteRepeated
    /\ Issued(Get(prev), "DeleteFirstClassDisk") = 1
    /\ DeleteOfUnknown(Cur)

\* A request that lacks a required field.
MissingField(r) ==
    \/ r.op = "CreateVolume" /\ CreateVolumeInvalid(r)
    \/ r.op = "DeleteVolume" /\ r.VolumeId = <<>>

\* C6: a request that lacks a required field fails with InvalidArgument and
\* issues no backend call.
C6_InvalidArgument ==
    (Done(1) /\ MissingField(req[1])) =>
        /\ resp[1].code = "InvalidArgument"
        /\ loc[1].trace = <<>>

IsPublishOp(c) ==
    c.req.op \in {"ControllerPublishVolume", "ControllerUnpublishVolume"}

\* A publish or unpublish request whose volume id the resolver did not
\* resolve (ErrNoDiskIDFound or another failure).
Unresolved(c) ==
    /\ IsPublishOp(c)
    /\ Issued(c, "WhichVCandDCByFCDId") > 0
    /\ Answer(c, "WhichVCandDCByFCDId") # "found"

\* C4: ControllerPublishVolume and ControllerUnpublishVolume on an id that
\* does not resolve fail with Internal and issue no node resolution and no
\* attach or detach call, whereas DeleteVolume on the same id, just before
\* or just after, succeeds.
C4_PublishUnresolved ==
    /\ (Done(1) /\ Unresolved(Cur)) =>
            /\ resp[1].code = "Internal"
            /\ IsNil(resp[1].PublishContext)
            /\ Len(loc[1].trace) = 1
    /\ (Done(1) /\ ~IsNil(prev)) =>
            /\ (/\ Unresolved(Cur)
                /\ Answer(Cur, "WhichVCandDCByFCDId") = "ErrNoDiskIDFound"
                /\ DeleteOfUnknown(Get(prev))
                /\ Get(prev).req.VolumeId = req[1].VolumeId)
                    => Get(prev).resp.code = "OK" /\ resp[1].code = "Internal"
            /\ (/\ Unresolved(Get(prev))
                /\ Answer(Get(prev), "WhichVCandDCByFCDId") = "ErrNoDiskIDFound"
                /\ DeleteOfUnknown(Cur)
                /\ Get(prev).req.VolumeId = req[1].VolumeId)
                    => Get(prev).resp.code = "Internal" /\ resp[1].code = "OK"

\* A publish of the id of a disk that the DeleteVolume before it removed.
C4_Witness ==
    /\ Done(1)
    /\ Unresolved(Cur)
    /\ Answer(Cur, "WhichVCandDCByFCDId") = "ErrNoDiskIDFound"
    /\ ~IsNil(prev)
    /\ Get(prev).req.op = "DeleteVolume"
    /\ Get(prev).req.VolumeId = req[1].VolumeId
    /\ Issued(Get(prev), "DeleteFirstClassDisk") = 1
    /\ Get(prev).resp.code = "OK"

RECURSIVE Flatten(_)
Flatten(ss) == IF ss = <<>> THEN <<>> ELSE Head(ss) \o Flatten(Tail(ss))

\* The ids of the disks at Go indices lo..hi-1 of the enumeration.
IdsOf(lo, hi) == [i \in 1..(hi - lo) |-> disks[lo + i].id]

\* The walk started from the empty token with a positive maxEntries.
FullWalk == walk.start = <<>> /\ walk.m > 0

\* C5: over an unchanging list, a walk from the empty token with maxEntries
\* m > 0 never fails, returns pages of at most m entries that together are
\* the disks in enumeration order, each once, and ends with a response
\* without next token after at most total + 1 calls; for 10 disks and m = 3
\* the pages are [0,2], [3,5], [6,8], [9,9] with next tokens 3, 6, 9, none.
C5_Pagination ==
    FullWalk =>
        /\ walk.state \in {"walking", "finished"}
        /\ \A i \in 1..Len(walk.pages) : Len(walk.pages[i]) <= walk.m
        /\ Len(Flatten(walk.pages)) <= Len(disks)
        /\ Flatten(walk.pages) = IdsOf(0, Len(Flatten(walk.pages)))
        /\ Len(walk.pages) <= Len(disks) + 1
        /\ Len(walk.pages) = Len(disks) + 1 => walk.state = "finished"
        /\ (walk.state = "walking" /\ walk.pages # <<>>) =>
                walk.token = Itoa(Len(Flatten(walk.pages)))
        /\ walk.state = "finished" =>
                /\ Flatten(walk.pages) = IdsOf(0, Len(disks))
                /\ walk.tokens[Len(walk.tokens)] = <<>>
        /\ (Len(disks) = 10 /\ walk.m = 3 /\ walk.state = "finished") =>
                /\ walk.pages = <<IdsOf(0, 3), IdsOf(3, 6), IdsOf(6, 9),
                                  IdsOf(9, 10)>>
                /\ walk.tokens = <<<<"3">>, <<"6">>, <<"9">>, <<>>>>

\* The walk over 10 disks by pages of 3 has ended.
C5_Witness ==
    /\ FullWalk
    /\ Len(disks) = 10
    /\ walk.m = 3
    /\ walk.state = "finished"
    /\ Len(walk.pages) = 4

\* The offset a starting token stands for: 0 for the empty token.
StartOf(w) == IF w.start = <<>> THEN 0 ELSE Atoi(w.start)

Numeric(w) == w.start = <<>> \/ AtoiOk(w.start)

\* The first call of the walk has been answered.
Answered == walk.state # "walking" \/ Len(walk.pages) > 0

\* C8: ListVolumes with maxEntries = 0 and a starting offset s,
\* 0 <= s <= total, returns exactly the disks at indices s..total-1 in
\* enumeration order, without next token.
C8_ListAll ==
    (/\ walk.m = 0
     /\ Numeric(walk)
     /\ 0 <= StartOf(walk)
     /\ StartOf(walk) <= Len(disks)
     /\ Answered) =>
        /\ walk.state = "finished"
        /\ walk.pages = <<IdsOf(StartOf(walk), Len(disks))>>
        /\ walk.tokens = <<<<>>>>

\* All but the first two of at least four disks are listed in one page.
C8_Witness ==
    /\ walk.m = 0
    /\ walk.start = <<"2">>
    /\ Len(disks) >= 4
    /\ walk.state = "finished"

IsPrefix(a, b) == Len(a) <= Len(b) /\ \A i \in 1..Len(a) : a[i] = b[i]

IsZoneCall(c) == c.call = "WhichVCandDCByZone"

\* The zone resolutions of the request in slot 1, in the order issued.
ZoneCalls == SelectSeq(loc[1].trace, IsZoneCall)

\* The zone calls went through list in order, each one after a failure,
\* and the instance in use, if any, is the one of the zone that resolved.
FirstSuccessOf(list) ==
    /\ IsPrefix([i \in 1..Len(ZoneCalls) |-> ZoneCalls[i].arg[1]], list)
    /\ \A i \in 1..(Len(ZoneCalls) - 1) : ZoneCalls[i].res = "err"
    /\ ~IsNil(loc[1].discoveryInfo) =>
            /\ ZoneCalls # <<>>
            /\ ZoneCalls[Len(ZoneCalls)].res = "ok"
            /\ loc[1].discoveryInfo
                 = ZoneInstance(ZoneCalls[Len(ZoneCalls)].arg[1])
    /\ Issued(Cur, "GetFirstClassDisk") > 0 => ~IsNil(loc[1].discoveryInfo)
    /\ \A i \in 1..Len(disks) : disks[i].inst = Get(loc[1].discoveryInfo)
    /\ resp[1].code = "OK" =>
            Get(resp[1].Volume).VolumeContext["vcenter"]
                = VcServer(Get(loc[1].discoveryInfo))

HasRequisite(r) ==
    ~IsNil(r.Accessibility) /\ ~IsNil(Get(r.Accessibility).Requisite)

HasPreferredOnly(r) ==
    /\ ~IsNil(r.Accessibility)
    /\ IsNil(Get(r.Accessibility).Requisite)
    /\ ~IsNil(Get(r.Accessibility).Preferred)

\* C7: with requisite segments, CreateVolume uses the instance of the first
\* requisite segment, in list order, that resolves; it tries no segment
\* after that one and never a preferred segment, also when every requisite
\* segment fails.  Preferred segments are tried, by the same rule, only
\* when there is no requisite list.
C7_FirstRequisite ==
    /\ (req[1].op = "CreateVolume" /\ HasRequisite(req[1])) =>
            FirstSuccessOf(Get(Get(req[1].Accessibility).Requisite))
    /\ (req[1].op = "CreateVolume" /\ HasPreferredOnly(req[1])) =>
            FirstSuccessOf(Get(Get(req[1].Accessibility).Preferred))

\* The first requisite segment failed, the second resolved, and the disk
\* was created there although a preferred segment was given.
C7_Witness ==
    /\ Done(1)
    /\ HasRequisite(req[1])
    /\ Get(Get(req[1].Accessibility).Requisite) = <<"zX", "zB">>
    /\ Get(req[1].Accessibility).Preferred = Some(<<"zA">>)
    /\ resp[1].code = "OK"
    /\ Len(ZoneCalls) = 2
    /\ Get(resp[1].Volume).VolumeContext["vcenter"] = VcServer("i2")

\* ceil(b / 1 GiB) in MB, with the 10 GiB default for no range or b = 0.
ExpectedMB(cap) ==
    IF IsNil(cap) \/ (Get(cap).g = 0 /\ Get(cap).r = 0)
    THEN 10240
    ELSE (Get(cap).g + (IF Get(cap).r > 0 THEN 1 ELSE 0)) * 1024

RequestedBytes(cap) == IF IsNil(cap) THEN Bytes(0, 0) ELSE Get(cap)

IsCreateDiskCall(c) == c.call = "CreateFirstClassDisk"

\* The size of every create-disk call of the request in slot 1 is the
\* default 10240 MB for no range or b = 0, and ceil(b / 1 GiB) * 1024 MB
\* otherwise.
RequestedSizeRounded ==
    req[1].op = "CreateVolume" =>
        \A i \in 1..Len(loc[1].trace) :
            IsCreateDiskCall(loc[1].trace[i]) =>
                loc[1].trace[i].arg[2] = ExpectedMB(req[1].CapacityRange)

\* A byte count in MiB, when it is a whole number of them.
WholeMiB(b) == b.r % MbInBytes = 0

InMiB(b) == b.g * 1024 + (b.r \div MbInBytes)

\* The request in slot 1 returned a volume after creating a disk, which is
\* the newest disk of the backend.
ReturnedAfterCreate ==
    /\ Done(1)
    /\ req[1].op = "CreateVolume"
    /\ resp[1].code = "OK"
    /\ \E i \in Calls(loc[1].trace, "CreateFirstClassDisk") :
            loc[1].trace[i].res = "ok"

\* C10: the size CreateVolume asks the backend to create is 10240 MB when no
\* capacity range is given or the requested byte count b is 0, and otherwise
\* ceil(b / 1 GiB) * 1024 MB; the capacity in bytes returned is the created
\* disk's MB capacity times 1 MiB, and is never smaller than b.
C10_Capacity ==
    /\ RequestedSizeRounded
    /\ ReturnedAfterCreate =>
            /\ DisksById(<<nextId - 1>>) # {}
            /\ WholeMiB(Get(resp[1].Volume).CapacityBytes)
            /\ InMiB(Get(resp[1].Volume).CapacityBytes)
                 = disks[CHOOSE i \in DisksById(<<nextId - 1>>) : TRUE].capMB
    /\ (Done(1) /\ req[1].op = "CreateVolume" /\ resp[1].code = "OK") =>
            BytesLeq(RequestedBytes(req[1].CapacityRange),
                     Get(resp[1].Volume).CapacityBytes)

(***************************************************************************)
(* A ListVolumes request served in a slot: the handler makes one call,     *)
(* getAllFCDs, and computes its response from the list it returns.         *)
(***************************************************************************)
ListVolumesRequest(token, m) ==
    [NoReq EXCEPT !.op = "ListVolumes", !.StartingToken = token,
                  !.MaxEntries = m]

ListVolumesResponse(r) ==
    [NoResp EXCEPT !.code = r.code, !.Entries = r.Entries,
                   !.NextToken = r.NextToken]

ListVolumesCall(p, r) ==
    /\ r.op = "ListVolumes"
    /\ Accept(p, r)
    /\ UNCHANGED <<disks, nextId, walk>>
    /\ loc' = [loc EXCEPT ![p] =
            [NoLoc EXCEPT !.trace = <<Call("getAllFCDs", <<>>, "ok")>>]]
    /\ Return(p, ListVolumesResponse(
                    ListVolumes(disks, r.StartingToken, r.MaxEntries)))

(***************************************************************************)
(* The attribute specification: disks of either pool type are created,     *)
(* deleted, attached, detached and listed, one request at a time.          *)
(***************************************************************************)
AttrLists == {ListVolumesRequest(<<>>, 0), ListVolumesRequest(<<"1">>, 1)}

AttrRequests == PublishCreates \cup Deletes \cup Publishes \cup AttrLists

NextAttr ==
    \/ \E r \in AttrRequests : CreateVolumeBegin(1, r)
    \/ \E r \in AttrRequests : DeleteVolumeBegin(1, r)
    \/ \E r \in AttrRequests : PublishBegin(1, r)
    \/ \E r \in AttrRequests : ListVolumesCall(1, r)
    \/ Step(1)
    \/ PublishResolve(1)
    \/ PublishNode(1)
    \/ PublishAttach(1)

SpecAttr == Init /\ [][NextAttr]_vars

BaseKeys ==
    {"type", "vcenter", "datacenter", "name", "parent_type", "parent_name"}

\* The disk stored under a volume id (there is one).
DiskOf(id) == disks[CHOOSE i \in DisksById(id) : TRUE]

\* The map a has the six keys every map has, with the disk's name and pool,
\* and the owning-datastore key exactly for a disk of a datastore cluster.
WellFormed(a, d) ==
    /\ BaseKeys \subseteq DOMAIN a
    /\ a["type"] = "FirstClassDisk"
    /\ a["name"] = d.name
    /\ a["parent_type"] = d.parentType
    /\ a["parent_name"] = d.parentName
    /\ a["vcenter"] = VcServer(d.inst)
    /\ a["datacenter"] = DcName(d.inst)
    /\ ("owning_datastore" \in DOMAIN a) <=> (d.parentType = TypeDatastoreCluster)
    /\ ("owning_datastore" \in DOMAIN a) => a["owning_datastore"] = d.ds

\* C11: every attribute map of a successful CreateVolume, of a successful
\* ControllerPublishVolume and of a ListVolumes entry has the type marker,
\* endpoint, datacenter, disk name, parent type and parent name; it has the
\* owning-datastore key if and only if the disk's parent is a datastore
\* cluster; the publish map has in addition the handle AttachDisk returned.
C11_Attributes ==
    (Done(1) /\ resp[1].code = "OK") =>
        /\ req[1].op = "CreateVolume" =>
                /\ DisksById(Get(resp[1].Volume).VolumeId) # {}
                /\ WellFormed(Get(resp[1].Volume).VolumeContext,
                              DiskOf(Get(resp[1].Volume).VolumeId))
                /\ DOMAIN Get(resp[1].Volume).VolumeContext
                     \subseteq BaseKeys \cup {"owning_datastore"}
        /\ req[1].op = "ControllerPublishVolume" =>
                /\ ~IsNil(resp[1].PublishContext)
                /\ WellFormed(Get(resp[1].PublishContext),
                              DiskOf(req[1].VolumeId))
                /\ "page83data" \in DOMAIN Get(resp[1].PublishContext)
                /\ Get(resp[1].PublishContext)["page83data"]
                     = DiskUUID(DiskOf(req[1].VolumeId))
        /\ req[1].op = "ListVolumes" =>
                \A i \in 1..Len(resp[1].Entries) :
                    /\ DisksById(resp[1].Entries[i].VolumeId) # {}
                    /\ WellFormed(resp[1].Entries[i].VolumeContext,
                                  DiskOf(resp[1].Entries[i].VolumeId))

\* A disk of a datastore cluster was published, and the listing that
\* followed returned a disk of a cluster and a disk of a datastore.
C11_Witness ==
    /\ Done(1)
    /\ resp[1].code = "OK"
    /\ req[1].op = "ListVolumes"
    /\ \E i, j \in 1..Len(resp[1].Entries) :
            /\ "owning_datastore" \in DOMAIN resp[1].Entries[i].VolumeContext
            /\ "owning_datastore" \notin DOMAIN resp[1].Entries[j].VolumeContext
    /\ ~IsNil(prev)
    /\ Get(prev).req.op = "ControllerPublishVolume"
    /\ Get(prev).resp.code = "OK"
    /\ "owning_datastore" \in DOMAIN Get(Get(prev).resp.PublishContext)

(***************************************************************************)
(* The concurrent specification: one CreateVolume request in each of the   *)
(* two slots, for the same name and pool, their backend calls interleaved. *)
(***************************************************************************)
RaceRequests ==
    {CreateVolumeRequest("a", Some(Params(TypeDatastore, "p1", "")), c, None) :
        c \in LifeCaps}

NextRace ==
    \E p \in Procs :
        \/ \E r \in RaceRequests : pc[p] = "idle" /\ CreateVolumeBegin(p, r)
        \/ CreateVolumeZone(p)
        \/ CreateVolumeLookup(p)
        \/ CreateVolumeCreate(p)
        \/ CreateVolumeReread(p)

SpecRace == Init /\ [][NextRace]_vars

\* The request in slot p, as Cur is for slot 1.
InSlot(p) == [req |-> req[p], resp |-> resp[p], trace |-> loc[p].trace]

\* Both slots hold a CreateVolume for the same name, pool and size.
SameCreate ==
    /\ IsCreate(InSlot(1))
    /\ IsCreate(InSlot(2))
    /\ req[1].Name = req[2].Name
    /\ SamePool(InSlot(1), InSlot(2))
    /\ VolSizeMB(req[1].CapacityRange) = VolSizeMB(req[2].CapacityRange)

\* The first lookup by name of the request in slot p reported no disk.
SawMissing(p) ==
    /\ Calls(loc[p].trace, "GetFirstClassDisk") # {}
    /\ Answer(InSlot(p), "GetFirstClassDisk") = "notfound"

IssuedCreate(p) == Calls(loc[p].trace, "CreateFirstClassDisk") # {}

\* C12: two concurrent CreateVolume requests for the same name, pool and
\* size can both see the name missing before either creates, and then both
\* issue the create-disk call: once both lookups reported the disk missing,
\* nothing in the controller keeps a request from issuing its create-disk
\* call, whatever the other request has done since.
C12_NoDeduplication ==
    \A p \in Procs :
        (/\ SameCreate
         /\ SawMissing(1)
         /\ SawMissing(2)
         /\ pc[p] = "cv_create")
        => ENABLED (/\ CreateVolumeCreate(p)
                    /\ Len(loc'[p].trace) = Len(loc[p].trace) + 1)

\* Both requests saw the name missing and both then issued the create-disk
\* call; the backend took both: the pool holds two disks of that name.
C12_Witness ==
    /\ SameCreate
    /\ SawMissing(1)
    /\ SawMissing(2)
    /\ IssuedCreate(1)
    /\ IssuedCreate(2)
    /\ Done(1)
    /\ Done(2)
    /\ Len(disks) = 2
    /\ disks[1].name = disks[2].name
    /\ disks[1].id # disks[2].id

\* The first lookup by name of the request in slot 1 failed with an error
\* that is not "no such disk".
LookupFailed ==
    /\ Calls(loc[1].trace, "GetFirstClassDisk") # {}
    /\ Answer(Cur, "GetFirstClassDisk") = "err"

\* C13: CreateVolume issues the create-disk call only when the lookup by
\* name reported that no disk of that name exists; when the lookup fails
\* for another reason the request ends with an Internal error and no
\* create-disk call.
C13_CreateOnlyWhenMissing ==
    req[1].op = "CreateVolume" =>
        /\ Issued(Cur, "CreateFirstClassDisk") > 0 =>
                Answer(Cur, "GetFirstClassDisk") = "notfound"
        /\ LookupFailed =>
                /\ Issued(Cur, "CreateFirstClassDisk") = 0
                /\ Done(1) => resp[1].code = "Internal"

\* The zone resolutions of the request in slot 1 that succeeded.
ResolvedCalls ==
    {i \in Calls(loc[1].trace, "WhichVCandDCByZone") : loc[1].trace[i].res = "ok"}

\* C14: CreateVolume looks a disk up or creates one only after exactly one
\* zone resolution succeeded; a valid request none of whose candidates
\* resolved (every segment failed, the list chosen is empty, or the legacy
\* zone failed) ends with an Internal error, without lookup or create.
C14_ResolvedBeforeStore ==
    (req[1].op = "CreateVolume" /\ ~CreateVolumeInvalid(req[1])) =>
        /\ (Issued(Cur, "GetFirstClassDisk")
              + Issued(Cur, "CreateFirstClassDisk") > 0) =>
                /\ Cardinality(ResolvedCalls) = 1
                /\ ~IsNil(loc[1].discoveryInfo)
        /\ (Done(1) /\ ResolvedCalls = {}) =>
                /\ resp[1].code = "Internal"
                /\ Issued(Cur, "GetFirstClassDisk") = 0
                /\ Issued(Cur, "CreateFirstClassDisk") = 0

\* The ids are those of a contiguous range of the enumeration.
IsRange(ids) ==
    \E lo \in 0..Len(disks) :
        /\ lo + Len(ids) <= Len(disks)
        /\ ids = IdsOf(lo, lo + Len(ids))

\* C15: for every starting token that parses as an integer and every
\* maxEntries, negative ones included, ListVolumes returns an error or a
\* page that is a contiguous range [lo, hi) of the list with
\* 0 <= lo <= hi <= total; it never takes a slice whose bounds are out of
\* range or inverted.
C15_SliceInRange ==
    Numeric(walk) =>
        /\ walk.state # "panic"
        /\ \A i \in 1..Len(walk.pages) : IsRange(walk.pages[i])

\* The offset the i-th call of the walk started from.
OffsetOf(i) == IF i = 1 THEN StartOf(walk) ELSE Atoi(walk.tokens[i - 1])

\* The i-th page ends with the last disk of the list.
EndsList(i) ==
    /\ Len(walk.pages[i]) > 0
    /\ OffsetOf(i) + Len(walk.pages[i]) = Len(disks)

\* C16 as claimed: a response carries a next token only when at least one
\* disk remains after its page; a page whose last entry is the last disk of
\* the list has no next token; a next token is the index one past the last
\* entry returned.
C16_NextTokenOnlyIfMore ==
    Numeric(walk) =>
        \A i \in 1..Len(walk.pages) :
            /\ walk.tokens[i] # <<>> =>
                    /\ OffsetOf(i) + Len(walk.pages[i]) < Len(disks)
                    /\ walk.tokens[i] = Itoa(OffsetOf(i) + Len(walk.pages[i]))
            /\ EndsList(i) => walk.tokens[i] = <<>>

\* C16 as amended: a response carries a next token exactly when maxEntries
\* is not zero, the list has more than maxEntries disks and the page is cut
\* after maxEntries entries that all exist (offset + maxEntries <= total);
\* this includes the page whose last entry is the last disk of the list.
\* A next token is the index one past the last entry returned.
C16_NextTokenWhenCut ==
    Numeric(walk) =>
        \A i \in 1..Len(walk.pages) :
            /\ walk.tokens[i] # <<>> <=>
                    /\ walk.m # 0
                    /\ Len(disks) > walk.m
                    /\ OffsetOf(i) + walk.m <= Len(disks)
            /\ walk.tokens[i] # <<>> =>
                    /\ Len(walk.pages[i]) = walk.m
                    /\ walk.tokens[i] = Itoa(OffsetOf(i) + Len(walk.pages[i]))

\* A page ended with the last disk of the list and carried a next token;
\* the call with that token returned an empty page and no token.
C16_Witness ==
    /\ Numeric(walk)
    /\ walk.state = "finished"
    /\ Len(walk.pages) >= 2
    /\ EndsList(Len(walk.pages) - 1)
    /\ walk.tokens[Len(walk.pages) - 1] = Itoa(Len(disks))
    /\ walk.pages[Len(walk.pages)] = <<>>

(***************************************************************************)
(* The shifting specification: a caller pages through a list from the      *)
(* empty token while DeleteVolume requests, served between its calls,      *)
(* remove disks of the list.                                               *)
(***************************************************************************)
InitShift ==
    /\ \E n \in 0..MaxTotal : disks = DiskList(n) /\ nextId = n + 1
    /\ pc = [p \in Procs |-> "idle"]
    /\ req = [p \in Procs |-> NoReq]
    /\ loc = [p \in Procs |-> NoLoc]
    /\ resp = [p \in Procs |-> NoResp]
    /\ prev = None
    /\ \E m \in 1..MaxPage : walk = NewWalk(m, <<>>)

NextShift ==
    \/ ListVolumesPage
    \/ \E r \in Deletes : DeleteVolumeBegin(1, r)
    \/ DeleteVolumeResolve(1)
    \/ DeleteVolumeDelete(1)

SpecShift == InitShift /\ [][NextShift]_vars

\* The offset of the walk's next call.
Cursor == IF walk.token = <<>> THEN 0 ELSE Atoi(walk.token)

Min(a, b) == IF a <= b THEN a ELSE b

Returned == {Flatten(walk.pages)[i] : i \in 1..Len(Flatten(walk.pages))}

\* C17: every ListVolumes call of a traversal reads the list as it is at
\* that call and takes its page at the raw offset of the token, whatever
\* was deleted since the token was issued: a token past the end of the
\* shrunken list fails with the start-beyond-end Internal error, and
\* otherwise the page is the disks now at that offset, so that a traversal
\* can finish without error and without a disk that was there throughout.
C17_RawOffset ==
    [][walk' # walk =>
        IF Cursor > Len(disks)
        THEN walk'.state = "Internal" /\ walk'.pages = walk.pages
        ELSE /\ walk'.state \in {"walking", "finished"}
             /\ walk'.pages =
                    Append(walk.pages,
                           IdsOf(Cursor, Min(Cursor + walk.m, Len(disks))))]_vars

\* A disk returned on an earlier page was deleted, the traversal finished
\* without error, and a disk still in the list was on none of its pages.
C17_Witness ==
    /\ walk.state = "finished"
    /\ \E id \in Returned : DisksById(id) = {}
    /\ \E i \in 1..Len(disks) : disks[i].id \notin Returned

\* Deletions shrank the list below the cursor and the next call failed.
ShrunkBelowCursor ==
    /\ walk.state = "Internal"
    /\ walk.pages # <<>>
    /\ Cursor > Len(disks)

\* The request in slot 1 made the call and the call failed.
Failed(call) ==
    \E i \in Calls(loc[1].trace, call) : loc[1].trace[i].res = "err"

\* C18: in ControllerPublishVolume and ControllerUnpublishVolume, a failed
\* node resolution returns the resolver's error unchanged and no attach or
\* detach call is issued; a failed attach or detach returns that call's
\* error unchanged, not as an Internal status, and no publish context.
C18_ErrorsUnchanged ==
    (Done(1) /\ IsPublishOp(Cur)) =>
        /\ Failed("GetVMByDNSName") =>
                /\ resp[1] = Error("err:GetVMByDNSName")
                /\ Issued(Cur, "AttachDisk") + Issued(Cur, "DetachDisk") = 0
        /\ Failed(AttachCall(req[1])) =>
                /\ resp[1] = Error("err:" \o AttachCall(req[1]))
                /\ resp[1].code # "Internal"
                /\ IsNil(resp[1].PublishContext)

\* An attach failed after the node was resolved, and the unpublish before
\* it failed at the node resolution.
C18_Witness ==
    /\ Done(1)
    /\ IsPublish(req[1])
    /\ Failed("AttachDisk")
    /\ ~IsNil(prev)
    /\ Get(prev).req.op = "ControllerUnpublishVolume"
    /\ Get(prev).resp = Error("err:GetVMByDNSName")

\* The calls that come after the resolution of the backend instance.
AfterResolution(c) ==
    c.call \notin {"WhichVCandDCByZone", "WhichVCandDCByFCDId", "getAllFCDs"}

\* No request repeats a backend call: the bounds of C19 on the calls of the
\* request in slot 1.
CallBounds ==
    /\ Issued(Cur, "CreateFirstClassDisk") <= 1
    /\ Issued(Cur, "GetFirstClassDisk") <= 2
    /\ Issued(Cur, "DeleteFirstClassDisk") <= 1
    /\ Issued(Cur, "AttachDisk") + Issued(Cur, "DetachDisk") <= 1
    /\ Issued(Cur, "GetVMByDNSName") <= 1
    /\ Issued(Cur, "WhichVCandDCByFCDId") <= 1
    /\ IsCreate(Cur) =>
            Issued(Cur, "WhichVCandDCByZone") <= Len(Candidates(req[1]))

\* C19: no request retries a backend call: a CreateVolume request issues at
\* most one create-disk call and two lookups by name, a DeleteVolume request
\* at most one delete, a publish or unpublish request at most one attach or
\* detach, and never more zone resolutions than there are candidate
\* segments (one for legacy addressing); the first backend call after the
\* resolution that fails is the last call of the request, which ends with
\* an error.
C19_NoRetry ==
    /\ CallBounds
    /\ \A i \in 1..Len(loc[1].trace) :
            (AfterResolution(loc[1].trace[i]) /\ loc[1].trace[i].res = "err") =>
                /\ i = Len(loc[1].trace)
                /\ Done(1) => resp[1].code # "OK"

====
